---- MODULE Spec2Model ----
(***************************************************************************)
(* Digital fatigue risk prediction.                                        *)
(*                                                                         *)
(*   src/src/train.py  the offline training script: load the dataset,      *)
(*                     engineer the label, fit, validate, save the model   *)
(*                     through a temporary file, re-load it.               *)
(*   src/app.py        the dashboard: trains a model at start-up, and on   *)
(*                     "Run Fatigue Assessment" predicts, clips, colours,  *)
(*                     and lists the contributors and the advice cards.    *)
(*                                                                         *)
(* SpecTrain is the training run together with its environment (an         *)
(* interrupt at any point, a reader opening the artifact at any moment);   *)
(* SpecApp is the dashboard session.                                       *)
(*                                                                         *)
(* Numbers.  Hours are kept in half hours (the sliders step by 0.5),       *)
(* scores and labels in tenths of a point, raw scores in hundredths.  A    *)
(* float that may be NaN is a record [nan, v].                             *)
(***************************************************************************)
EXTENDS Integers, Sequences, FiniteSets, TLC

VARIABLES
    \* ---- environment of a training run
    csvExists,      \* os.path.exists(DATA_PATH)
    csvCols,        \* the columns of the dataset file
    csvRows,        \* the rows of the dataset file
    crossDevice,    \* the temporary directory is on another file system than model/
    prior,          \* the artifact at MODEL_PATH when the run started
    \* ---- the training script
    pc,             \* position of the script
    df,             \* the data frame
    fatigue_score,  \* df["fatigue_score"], the engineered label
    preds,          \* model.predict(X_test)
    test_pred,      \* model.predict(X_train.iloc[:1])
    fs,             \* the files: temp_path and MODEL_PATH
    loaded_model,   \* joblib.load(MODEL_PATH)
    stdout,         \* the messages printed
    failure,        \* why the run aborted, "" while it has not
    readerSeen,     \* what a reader last found at MODEL_PATH
    \* ---- the dashboard
    appPc,          \* position of the dashboard session
    appRows,        \* the data frame load_data() returned
    appLabels,      \* y of train_model
    avg_fatigue,    \* y.mean()
    sliders,        \* the six slider values
    rendered        \* what the last run of the pipeline rendered

trainVars == <<csvExists, csvCols, csvRows, crossDevice, prior, pc, df,
               fatigue_score, preds, test_pred, fs, loaded_model, stdout,
               failure, readerSeen>>
appVars == <<appPc, appRows, appLabels, avg_fatigue, sliders, rendered>>
vars == <<trainVars, appVars>>

-----------------------------------------------------------------------------
(* Bounds *)

\* the longest dataset file
MaxRows == 2
\* the chunks joblib.dump writes the artifact in
NChunks == 2

-----------------------------------------------------------------------------
(* Floats *)

NaN == [nan |-> TRUE, v |-> 0]
Num(x) == [nan |-> FALSE, v |-> x]
IsFinite(x) == ~x.nan

RECURSIVE SeqMin(_)
SeqMin(s) ==
    IF Len(s) = 1 THEN s[1]
    ELSE LET m == SeqMin(Tail(s)) IN IF s[1] < m THEN s[1] ELSE m

RECURSIVE SeqMax(_)
SeqMax(s) ==
    IF Len(s) = 1 THEN s[1]
    ELSE LET m == SeqMax(Tail(s)) IN IF s[1] > m THEN s[1] ELSE m

RECURSIVE SelectRows(_, _)
SelectRows(s, keep) ==
    IF s = <<>> THEN <<>>
    ELSE IF keep[Len(s)] THEN Append(SelectRows(SubSeq(s, 1, Len(s) - 1), keep), s[Len(s)])
    ELSE SelectRows(SubSeq(s, 1, Len(s) - 1), keep)

-----------------------------------------------------------------------------
(* The dataset *)

required_cols ==
    {"screen_time_hours", "continuous_usage_minutes", "night_usage_hours",
     "breaks_per_day", "sleep_hours", "eye_strain_level", "task_switching_rate"}

\* A row: the seven features in their own units, and whether a cell is empty.
Row(s, c, n, b, sl, e, t, na) ==
    [screen_time_hours |-> s, continuous_usage_minutes |-> c,
     night_usage_hours |-> n, breaks_per_day |-> b, sleep_hours |-> sl,
     eye_strain_level |-> e, task_switching_rate |-> t, na |-> na]

\* The rows a dataset file is made of: two different rows of the same raw
\* score, a row of another raw score, and a row with an empty cell.
RowA == Row(6, 100, 1, 4, 7, 3, 18, FALSE)
RowB == Row(8, 100, 1, 7, 7, 3, 18, FALSE)
RowC == Row(12, 200, 4, 1, 5, 5, 40, FALSE)
RowNa == Row(6, 100, 1, 4, 7, 3, 18, TRUE)
SampleRows == {RowA, RowB, RowC, RowNa}

Datasets == UNION { [1..n -> SampleRows] : n \in 0..MaxRows }

\* df.dropna().reset_index(drop=True)
dropna(rows) == SelectRows(rows, [i \in 1..Len(rows) |-> ~rows[i].na])

\* raw_score of one row, in hundredths
raw_score(r) ==
      r.screen_time_hours * 600
    + r.continuous_usage_minutes * 8
    + r.night_usage_hours * 800
    - r.breaks_per_day * 400
    - r.sleep_hours * 700
    + r.eye_strain_level * 1000
    + r.task_switching_rate * 150

\* ((raw - raw_min) / (raw_max - raw_min)) * 100, in tenths; 0/0 is NaN
MinMaxScale(raw, raw_min, raw_max) ==
    IF raw_max = raw_min THEN NaN
    ELSE Num(((raw - raw_min) * 1000) \div (raw_max - raw_min))

\* the label column of a data frame
Labels(rows) ==
    IF rows = <<>> THEN <<>>
    ELSE LET raw == [i \in 1..Len(rows) |-> raw_score(rows[i])]
             raw_min == SeqMin(raw)
             raw_max == SeqMax(raw)
         IN [i \in 1..Len(rows) |-> MinMaxScale(raw[i], raw_min, raw_max)]

\* train_test_split(test_size=0.2): the number of test rows is ceil(0.2 n)
NTest(n) == (n + 4) \div 5
NTrain(n) == n - NTest(n)

-----------------------------------------------------------------------------
(* Files *)

\* A file: which run wrote it, how many of its chunks are on disk, and what
\* its bytes deserialize to.
File(gen, written, integrity) ==
    [gen |-> gen, written |-> written, integrity |-> integrity]

Absent == File("none", 0, "none")
\* the artifact an earlier, successful run published
Published == File("old", NChunks, "good")

\* What the bytes joblib.dump put on disk deserialize to: the model; nothing
\* (joblib.load raises); an object without .predict; an object whose .predict
\* does not work.
Integrities == {"good", "unloadable", "no_predict", "broken_predict"}

IsPartial(f) == f.gen # "none" /\ f.written < NChunks

-----------------------------------------------------------------------------
(* The estimator, as the script sees it *)

\* The result of one model.predict call on n rows: it raised, or it returned
\* an object of some type, length and finiteness.
NoPred == [raised |-> FALSE, kind |-> "none", len |-> 0, finite |-> FALSE]
PredictOutcomes(n) ==
    { [raised |-> TRUE, kind |-> "none", len |-> 0, finite |-> FALSE] }
    \cup { [raised |-> FALSE, kind |-> k, len |-> l, finite |-> f] :
             k \in {"ndarray", "list", "other"}, l \in {n, n + 1}, f \in BOOLEAN }

\* mean_absolute_error(y_test, preds) validates preds: an array of the length
\* of y_test with finite entries, or it raises
MaeAccepts(out, n) ==
    out.kind \in {"ndarray", "list"} /\ out.len = n /\ out.finite

\* isinstance(test_pred, (np.ndarray, list))
SanityAssert(out) == out.kind \in {"ndarray", "list"}

NoModel == [has_predict |-> FALSE, works |-> FALSE]

-----------------------------------------------------------------------------
(* The training script, src/src/train.py *)

Say(msg) == stdout' = Append(stdout, msg)

\* sys.exit(message) or an uncaught exception
Abort(reason) == /\ pc' = "aborted"
                 /\ failure' = reason

envVars == <<csvExists, csvCols, csvRows, crossDevice, prior>>

TrainInit ==
    /\ csvExists \in BOOLEAN
    /\ csvCols \in {required_cols, required_cols \ {"sleep_hours"}}
    /\ csvRows \in Datasets
    /\ crossDevice \in BOOLEAN
    /\ prior \in {Absent, Published}
    /\ pc = "start"
    /\ df = <<>>
    /\ fatigue_score = <<>>
    /\ preds = NoPred
    /\ test_pred = NoPred
    /\ fs = [tmp |-> Absent, final |-> prior]
    /\ loaded_model = NoModel
    /\ stdout = <<"Starting training pipeline">>
    /\ failure = ""
    /\ readerSeen = prior

\* SAFETY CHECKS
CheckDataset ==
    /\ pc = "start"
    /\ IF ~csvExists
       THEN Abort("dataset_not_found")
       ELSE pc' = "load" /\ UNCHANGED failure
    /\ UNCHANGED <<envVars, df, fatigue_score, preds, test_pred, fs,
                   loaded_model, stdout, readerSeen, appVars>>

\* LOAD DATA without the check of the required columns
LoadDataUnchecked ==
    /\ pc = "load"
    /\ df' = dropna(csvRows)
    /\ Say("Dataset loaded")
    /\ pc' = "target"
    /\ UNCHANGED <<envVars, fatigue_score, preds, test_pred, fs, loaded_model,
                   failure, readerSeen, appVars>>

\* LOAD DATA
LoadData ==
    /\ pc = "load"
    /\ IF ~(required_cols \subseteq csvCols)
       THEN /\ Abort("missing_required_column")
            /\ df' = csvRows
            /\ UNCHANGED stdout
       ELSE /\ df' = dropna(csvRows)
            /\ Say("Dataset loaded")
            /\ pc' = "target"
            /\ UNCHANGED failure
    /\ UNCHANGED <<envVars, fatigue_score, preds, test_pred, fs, loaded_model,
                   readerSeen, appVars>>

\* TARGET ENGINEERING, FEATURES / LABEL
TargetEngineering ==
    /\ pc = "target"
    /\ fatigue_score' = Labels(df)
    /\ pc' = "split"
    /\ UNCHANGED <<envVars, df, preds, test_pred, fs, loaded_model, stdout,
                   failure, readerSeen, appVars>>

\* SPLIT: train_test_split raises when the train partition would be empty
Split ==
    /\ pc = "split"
    /\ IF NTrain(Len(df)) = 0
       THEN Abort("split_failed")
       ELSE pc' = "fit" /\ UNCHANGED failure
    /\ UNCHANGED <<envVars, df, fatigue_score, preds, test_pred, fs,
                   loaded_model, stdout, readerSeen, appVars>>

\* y_train: the rows the split leaves for training
y_train == SubSeq(fatigue_score, 1, NTrain(Len(fatigue_score)))

\* MODEL: fit raises on a label that is not finite
Fit ==
    /\ pc = "fit"
    /\ Say("Training model")
    /\ IF \E i \in DOMAIN y_train : ~IsFinite(y_train[i])
       THEN Abort("fit_failed")
       ELSE pc' = "validate" /\ UNCHANGED failure
    /\ UNCHANGED <<envVars, df, fatigue_score, preds, test_pred, fs,
                   loaded_model, readerSeen, appVars>>

\* VALIDATION: preds, mae
Validate ==
    /\ pc = "validate"
    /\ \E out \in PredictOutcomes(NTest(Len(df))) :
         /\ preds' = out
         /\ IF out.raised
            THEN Abort("predict_raised") /\ UNCHANGED stdout
            ELSE IF ~MaeAccepts(out, NTest(Len(df)))
            THEN Abort("mae_failed") /\ UNCHANGED stdout
            ELSE /\ Say("Validation MAE")
                 /\ pc' = "sanity"
                 /\ UNCHANGED failure
    /\ UNCHANGED <<envVars, df, fatigue_score, test_pred, fs, loaded_model,
                   readerSeen, appVars>>

\* Sanity prediction check
SanityCheck ==
    /\ pc = "sanity"
    /\ \E out \in PredictOutcomes(1) :
         /\ test_pred' = out
         /\ IF out.raised
            THEN Abort("predict_raised") /\ UNCHANGED stdout
            ELSE IF ~SanityAssert(out)
            THEN Abort("prediction_output_invalid") /\ UNCHANGED stdout
            ELSE /\ Say("Model prediction sanity check passed")
                 /\ pc' = "save"
                 /\ UNCHANGED failure
    /\ UNCHANGED <<envVars, df, fatigue_score, preds, fs, loaded_model,
                   readerSeen, appVars>>

\* SAFE SAVE: tempfile.NamedTemporaryFile(delete=False)
CreateTemp ==
    /\ pc = "save"
    /\ fs' = [fs EXCEPT !.tmp = File("new", 0, "unloadable")]
    /\ pc' = "dump"
    /\ UNCHANGED <<envVars, df, fatigue_score, preds, test_pred, loaded_model,
                   stdout, failure, readerSeen, appVars>>

\* joblib.dump writing to MODEL_PATH itself
DumpTargetFinal == "final"

\* the file joblib.dump writes to
DumpTarget == "tmp"

\* SAFE SAVE: joblib.dump(model, tmp.name) writes one more chunk; what the
\* finished file deserializes to is settled with its last chunk
DumpChunk ==
    /\ pc = "dump"
    /\ LET f == fs[DumpTarget]
           n == IF f.gen = "new" THEN f.written + 1 ELSE 1
       IN IF n < NChunks
          THEN /\ fs' = [fs EXCEPT ![DumpTarget] = File("new", n, "unloadable")]
               /\ pc' = "dump"
          ELSE \E q \in Integrities :
                 /\ fs' = [fs EXCEPT ![DumpTarget] = File("new", n, q)]
                 /\ pc' = "replace"
    /\ UNCHANGED <<envVars, df, fatigue_score, preds, test_pred, loaded_model,
                   stdout, failure, readerSeen, appVars>>

\* SAFE SAVE: joblib.dump raises (the disk is full)
DumpFails ==
    /\ pc = "dump"
    /\ Abort("dump_failed")
    /\ UNCHANGED <<envVars, df, fatigue_score, preds, test_pred, fs,
                   loaded_model, stdout, readerSeen, appVars>>

\* SAFE SAVE: os.replace(temp_path, MODEL_PATH) renames in one step, or
\* raises OSError across file systems
Replace ==
    /\ pc = "replace"
    /\ IF crossDevice
       THEN Abort("replace_failed") /\ UNCHANGED fs
       ELSE /\ fs' = [tmp |-> Absent, final |-> fs.tmp]
            /\ pc' = "reload"
            /\ UNCHANGED failure
    /\ UNCHANGED <<envVars, df, fatigue_score, preds, test_pred, loaded_model,
                   stdout, readerSeen, appVars>>

\* FINAL VERIFICATION: joblib.load(MODEL_PATH)
Reload ==
    /\ pc = "reload"
    /\ IF IsPartial(fs.final) \/ fs.final.integrity \in {"unloadable", "none"}
       THEN Abort("load_failed") /\ UNCHANGED loaded_model
       ELSE /\ loaded_model' = [has_predict |-> fs.final.integrity # "no_predict",
                                works |-> fs.final.integrity = "good"]
            /\ pc' = "verify"
            /\ UNCHANGED failure
    /\ UNCHANGED <<envVars, df, fatigue_score, preds, test_pred, fs, stdout,
                   readerSeen, appVars>>

\* FINAL VERIFICATION: assert hasattr(loaded_model, "predict"), then the
\* closing messages
Verify ==
    /\ pc = "verify"
    /\ IF ~loaded_model.has_predict
       THEN Abort("saved_model_missing_predict") /\ UNCHANGED stdout
       ELSE /\ stdout' = stdout \o <<"Model safely saved", "Training completed successfully">>
            /\ pc' = "done"
            /\ UNCHANGED failure
    /\ UNCHANGED <<envVars, df, fatigue_score, preds, test_pred, fs,
                   loaded_model, readerSeen, appVars>>

\* the process is killed between two steps
Interrupt ==
    /\ pc \notin {"done", "aborted", "killed"}
    /\ pc' = "killed"
    /\ UNCHANGED <<envVars, df, fatigue_score, preds, test_pred, fs,
                   loaded_model, stdout, failure, readerSeen, appVars>>

\* another process opens MODEL_PATH
ReaderOpen ==
    /\ readerSeen' = fs.final
    /\ UNCHANGED <<envVars, pc, df, fatigue_score, preds, test_pred, fs,
                   loaded_model, stdout, failure, appVars>>

TrainNext ==
    \/ CheckDataset
    \/ LoadData
    \/ TargetEngineering
    \/ Split
    \/ Fit
    \/ Validate
    \/ SanityCheck
    \/ CreateTemp
    \/ DumpChunk
    \/ DumpFails
    \/ Replace
    \/ Reload
    \/ Verify
    \/ Interrupt
    \/ ReaderOpen

-----------------------------------------------------------------------------
(* The dashboard, src/app.py *)

FEATURES == required_cols

\* the value the pipeline passes for breaks_per_day
BreaksPerDay == 4

\* the limits np.clip holds the score to, in tenths
ClipLow == 0
ClipHigh == 1000
\* the scores the colour changes at, in tenths
AmberFrom == 400
RedFrom == 700

\* The sliders as the page first shows them: 6.0 h, 1.5 h, 90 min, 18, 7.0 h, 3
SliderDefaults ==
    [screen |-> 12, night |-> 3, cont |-> 90, switch |-> 18, sleep |-> 14, eye |-> 3]

\* Positions each slider is moved to (hours in half hours): within the
\* slider's range and step, with its default and the upper end of its range.
SliderPositions ==
    [screen |-> {12, 18, 32}, night |-> {2, 3, 16}, cont |-> {60, 90},
     switch |-> {10, 18, 50}, sleep |-> {6, 14, 20}, eye |-> {2, 3, 5}]

\* how far around each mark a prediction is taken, in tenths
PredSlack == 1
\* the scores around which predictions are taken, in tenths: the clip limits,
\* the colour changes, and 35 and 65
PredMarks == {ClipLow, 350, AmberFrom, 650, RedFrom, ClipHigh}
\* the values model.predict(user_df)[0] is taken from, in tenths
Predictions ==
    UNION { (m - PredSlack)..(m + PredSlack) : m \in PredMarks }

\* a clip that holds the score from above only
clipUpperOnly(x, lo, hi) == IF x > hi THEN hi ELSE x

\* np.clip(fatigue, 0, 100)
clip(x, lo, hi) == IF x < lo THEN lo ELSE IF x > hi THEN hi ELSE x

\* the colour with the changes one tenth late
colorInclusive(fatigue) ==
    IF fatigue <= AmberFrom THEN "#22c55e"
    ELSE IF fatigue <= RedFrom THEN "#f59e0b"
    ELSE "#ef4444"

\* color = green if fatigue < 40 else amber if fatigue < 70 else red
color(fatigue) ==
    IF fatigue < AmberFrom THEN "#22c55e"
    ELSE IF fatigue < RedFrom THEN "#f59e0b"
    ELSE "#ef4444"

factors ==
    <<"Screen Exposure", "Night Usage", "Sleep Deficit", "Visual Strain",
      "Context Switching">>

\* the values with the sleep hours themselves
valuesSleepRaw(s) == <<s.screen, s.night, s.sleep, 2 * s.eye, 2 * s.switch>>

\* values = [screen, night, 10-sleep, eye, switch], in half units
values(s) == <<s.screen, s.night, 20 - s.sleep, 2 * s.eye, 2 * s.switch>>

advice(f) ==
    CASE f = "Screen Exposure" -> "Introduce structured offline intervals"
      [] f = "Night Usage" -> "Enforce a digital sunset protocol"
      [] f = "Sleep Deficit" -> "Optimize sleep hygiene"
      [] f = "Visual Strain" -> "Apply controlled visual recovery cycles"
      [] f = "Context Switching" -> "Batch cognitively similar tasks"

\* sorted(zip(factors, values), key=lambda x: x[1], reverse=True): the
\* indices by value, largest first, equal values in their order in the list
RECURSIVE InsertByValue(_, _, _)
InsertByValue(order, i, v) ==
    IF order = <<>> THEN <<i>>
    ELSE IF v[order[1]] >= v[i]
    THEN <<order[1]>> \o InsertByValue(Tail(order), i, v)
    ELSE <<i>> \o order

RECURSIVE SortedByValue(_, _)
SortedByValue(v, n) ==
    IF n = 0 THEN <<>> ELSE InsertByValue(SortedByValue(v, n - 1), n, v)

\* the advice cards in the order of the list
RecommendationsUnsorted(s) ==
    [k \in DOMAIN factors |->
        [title |-> factors[k], text |-> advice(factors[k])]]

\* RECOMMENDATIONS: the advice cards, top to bottom, title and text
Recommendations(s) ==
    LET order == SortedByValue(values(s), Len(factors))
    IN [k \in DOMAIN order |->
          [title |-> factors[order[k]], text |-> advice(factors[order[k]])]]

NotRun == [ran |-> FALSE]

\* RUN PIPELINE: the inference and the three metrics
Assessment(s, prediction, baseline) ==
    LET user_df == [screen_time_hours |-> s.screen,
                    continuous_usage_minutes |-> s.cont,
                    night_usage_hours |-> s.night,
                    breaks_per_day |-> BreaksPerDay,
                    sleep_hours |-> s.sleep,
                    eye_strain_level |-> s.eye,
                    task_switching_rate |-> s.switch]
        fatigue == clip(prediction, ClipLow, ClipHigh)
    IN [user_df |-> user_df,
        predicted |-> prediction,
        fatigue |-> fatigue,
        color |-> color(fatigue),
        score_metric |-> fatigue,
        baseline_metric |-> baseline,
        deviation_metric |-> fatigue - baseline]

\* ANALYSIS: the bar chart of the contributors
Analysis(s, bar_color) == [x |-> values(s), y |-> factors, color |-> bar_color]

\* y.mean(), in tenths
Mean(y) ==
    LET RECURSIVE Sum(_)
        Sum(q) == IF q = <<>> THEN 0 ELSE q[1].v + Sum(Tail(q))
    IN Sum(y) \div Len(y)

\* the data frames the dashboard is started on: a single row, two rows of
\* the same raw score, and two frames whose raw scores differ
AppDatasets ==
    { <<RowA>>, <<RowA, RowB>>, <<RowA, RowC>>, <<RowA, RowB, RowC>> }

AppInit ==
    /\ appPc = "start"
    /\ appRows \in AppDatasets
    /\ appLabels = <<>>
    /\ avg_fatigue = 0
    /\ sliders = SliderDefaults
    /\ rendered = NotRun

\* the training run does not take part in a dashboard session
TrainIdle ==
    /\ csvExists = TRUE
    /\ csvCols = required_cols
    /\ csvRows = <<>>
    /\ crossDevice = FALSE
    /\ prior = Absent
    /\ pc = "start"
    /\ df = <<>>
    /\ fatigue_score = <<>>
    /\ preds = NoPred
    /\ test_pred = NoPred
    /\ fs = [tmp |-> Absent, final |-> Absent]
    /\ loaded_model = NoModel
    /\ stdout = <<>>
    /\ failure = ""
    /\ readerSeen = Absent

\* the dashboard is not running during a training run
AppIdle ==
    /\ appPc = "start"
    /\ appRows = <<>>
    /\ appLabels = <<>>
    /\ avg_fatigue = 0
    /\ sliders = SliderDefaults
    /\ rendered = NotRun

\* load_data() and train_model(df): the label, the split, the fit, y.mean()
train_model ==
    /\ appPc = "start"
    /\ appLabels' = Labels(appRows)
    /\ IF \/ NTrain(Len(appRows)) = 0
          \/ \E i \in DOMAIN appLabels' : ~IsFinite(appLabels'[i])
       THEN appPc' = "crashed" /\ UNCHANGED avg_fatigue
       ELSE appPc' = "ready" /\ avg_fatigue' = Mean(appLabels')
    /\ UNCHANGED <<appRows, sliders, rendered, trainVars>>

\* the user moves a slider; the script reruns with run false
MoveSlider ==
    /\ appPc = "ready"
    /\ \E k \in DOMAIN sliders :
         \E v \in SliderPositions[k] \ {sliders[k]} :
            sliders' = [sliders EXCEPT ![k] = v]
    /\ rendered' = NotRun
    /\ UNCHANGED <<appPc, appRows, appLabels, avg_fatigue, trainVars>>

\* the user presses "Run Fatigue Assessment"
RunAssessment ==
    /\ appPc = "ready"
    /\ LET cards == Recommendations(sliders)
       IN \E p \in Predictions :
            LET a == Assessment(sliders, p, avg_fatigue)
            IN rendered' = [ran |-> TRUE, assessment |-> a,
                            chart |-> Analysis(sliders, a.color),
                            cards |-> cards]
    /\ UNCHANGED <<appPc, appRows, appLabels, avg_fatigue, sliders, trainVars>>

AppNext ==
    \/ train_model
    \/ MoveSlider
    \/ RunAssessment

\* a training run: the dashboard does not take part
InitTrain == TrainInit /\ AppIdle
SpecTrain == InitTrain /\ [][TrainNext]_vars

\* a dashboard session: train.py does not take part
InitApp == AppInit /\ TrainIdle
SpecApp == InitApp /\ [][AppNext]_vars

-----------------------------------------------------------------------------
(* Properties of the training run, checked under SpecTrain *)

Range(q) == {q[i] : i \in DOMAIN q}

IsCompleteNew(f) == f.gen = "new" /\ f.written = NChunks

\* max(raw) = min(raw) over the rows training keeps
DegenerateLabelRange ==
    LET rows == dropna(csvRows)
        raw == [i \in DOMAIN rows |-> raw_score(rows[i])]
    IN rows # <<>> /\ SeqMax(raw) = SeqMin(raw)

ConfigurationError ==
    \/ ~csvExists
    \/ ~(required_cols \subseteq csvCols)
    \/ DegenerateLabelRange

\* C1: at every moment of a training run, an interrupted one included, the
\* file at MODEL_PATH, and what a reader found there, is absent, the complete
\* artifact published before, or the complete new artifact; never a partly
\* written one.
C1_ArtifactNeverPartial ==
    /\ fs.final = prior \/ IsCompleteNew(fs.final)
    /\ readerSeen = prior \/ IsCompleteNew(readerSeen)
    /\ ~IsPartial(fs.final) /\ ~IsPartial(readerSeen)

\* the run was killed with the temporary file written and MODEL_PATH not yet
\* replaced, and a reader found the previous artifact
C1_Witness ==
    /\ pc = "killed"
    /\ IsCompleteNew(fs.tmp)
    /\ prior = Published
    /\ fs.final = Published
    /\ readerSeen = Published

\* C2: a run that fails at the re-load, or at the check of .predict, leaves
\* at MODEL_PATH what was there before the run.
C2_NoBrokenArtifactLeft ==
    (pc = "aborted" /\ failure \in {"load_failed", "saved_model_missing_predict"})
        => fs.final = prior

\* C3: with the dataset missing, a required column missing, or a degenerate
\* label range, the run never gets to saving: it writes neither the temporary
\* file nor MODEL_PATH, and ends aborted (or killed).
C3_ConfigErrorLeavesArtifact ==
    ConfigurationError =>
        /\ fs.final = prior
        /\ fs.tmp = Absent
        /\ pc \in {"start", "load", "target", "split", "fit", "aborted", "killed"}
        /\ pc = "aborted" =>
             failure \in {"dataset_not_found", "missing_required_column",
                          "split_failed", "fit_failed"}

\* a run on a degenerate dataset aborted in fit, the published artifact in place
C3_Witness ==
    /\ DegenerateLabelRange
    /\ csvExists
    /\ required_cols \subseteq csvCols
    /\ pc = "aborted"
    /\ failure = "fit_failed"
    /\ prior = Published
    /\ fs.final = Published

\* C4: no label that is NaN is ever produced.
C4_NoNaNLabel ==
    \A i \in DOMAIN fatigue_score : IsFinite(fatigue_score[i])

\* C9: success is printed only for an artifact whose re-loaded predict works.
C9_SuccessMeansWorkingPredict ==
    "Training completed successfully" \in Range(stdout) => loaded_model.works

-----------------------------------------------------------------------------
(* Properties of the dashboard, checked under SpecApp *)

Titles == {rendered.cards[k].title : k \in DOMAIN rendered.cards}

\* the value the code ranks a factor by, in half units
RankedBy(title) ==
    CASE title = "Screen Exposure" -> sliders.screen
      [] title = "Night Usage" -> sliders.night
      [] title = "Sleep Deficit" -> 20 - sliders.sleep
      [] title = "Visual Strain" -> 2 * sliders.eye
      [] title = "Context Switching" -> 2 * sliders.switch

PlaceInList(title) == CHOOSE i \in DOMAIN factors : factors[i] = title

\* the advice items whose threshold condition holds
Triggered ==
    {t \in {"Screen Exposure", "Night Usage", "Sleep Deficit",
            "Continuous Usage", "Visual Strain", "Context Switching"} :
        \/ t = "Screen Exposure" /\ sliders.screen > 16
        \/ t = "Night Usage" /\ sliders.night > 4
        \/ t = "Sleep Deficit" /\ sliders.sleep < 12
        \/ t = "Continuous Usage" /\ sliders.cont > 120
        \/ t = "Visual Strain" /\ sliders.eye >= 4
        \/ t = "Context Switching" /\ sliders.switch > 30}

\* C5, as amended: the colour follows the score alone, green below 40, amber
\* from 40 and below 70, red from 70; the chart takes the same colour.
C5_ColorByScore ==
    rendered.ran =>
        LET f == rendered.assessment.fatigue
            c == rendered.assessment.color
        IN /\ f < 400 => c = "#22c55e"
           /\ (400 <= f /\ f < 700) => c = "#f59e0b"
           /\ f >= 700 => c = "#ef4444"
           /\ rendered.chart.color = c

\* a score of 35.0 rendered green
C5_Witness ==
    /\ rendered.ran
    /\ rendered.assessment.fatigue = 350
    /\ rendered.assessment.color = "#22c55e"

\* C5, as claimed: below 35 LOW (green), from 35 and below 65 MODERATE
\* (amber), from 65 HIGH (red).
C5_BucketsAt35And65 ==
    rendered.ran =>
        LET f == rendered.assessment.fatigue
            c == rendered.assessment.color
        IN /\ f < 350 => c = "#22c55e"
           /\ (350 <= f /\ f < 650) => c = "#f59e0b"
           /\ f >= 650 => c = "#ef4444"

\* C6: whatever predict returned, the score that is coloured and shown is in
\* [0, 100]: the prediction itself when it is in the range, else the nearer
\* limit; the deviation is taken from that score.
C6_ScoreClamped ==
    rendered.ran =>
        LET a == rendered.assessment
        IN /\ a.fatigue >= 0 /\ a.fatigue <= 1000
           /\ (a.predicted >= 0 /\ a.predicted <= 1000) => a.fatigue = a.predicted
           /\ a.predicted < 0 => a.fatigue = 0
           /\ a.predicted > 1000 => a.fatigue = 1000
           /\ a.score_metric >= 0 /\ a.score_metric <= 1000
           /\ a.deviation_metric + a.baseline_metric = a.score_metric
           /\ a.fatigue < 400 <=> a.color = "#22c55e"

\* a prediction above 100 was rendered as 100
C6_Witness ==
    /\ rendered.ran
    /\ rendered.assessment.predicted > 1000
    /\ rendered.assessment.fatigue = 1000

\* C7, as amended: every run shows the five advice cards, one for each
\* factor whatever the inputs are, ordered by the factor's value, largest
\* first, equal values in the order of the list; there is no card for the
\* continuous session and no "balanced habits" card.
C7_AllFiveCardsRanked ==
    rendered.ran =>
        /\ Len(rendered.cards) = 5
        /\ Titles = Range(factors)
        /\ \A k \in 1..4 :
             LET a == rendered.cards[k].title
                 b == rendered.cards[k + 1].title
             IN \/ RankedBy(a) > RankedBy(b)
                \/ RankedBy(a) = RankedBy(b) /\ PlaceInList(a) < PlaceInList(b)

\* the profile screen 9, night 1, sleep 7, continuous 60, eye 2, switching
\* 10 was run and got five cards, "Context Switching" first
C7_Witness ==
    /\ rendered.ran
    /\ sliders = [screen |-> 18, night |-> 2, cont |-> 60, switch |-> 10,
                  sleep |-> 14, eye |-> 2]
    /\ Len(rendered.cards) = 5
    /\ rendered.cards[1].title = "Context Switching"

\* C7, as claimed: the cards are the items whose threshold condition holds,
\* or the single "balanced habits" card when none holds.
C7_AdviceByThreshold ==
    rendered.ran =>
        Titles = IF Triggered = {} THEN {"Balanced Habits"} ELSE Triggered

\* C8, as amended: the values of the chart and of the ranking are the inputs
\* themselves, screen, night, 10 - sleep, eye and switching, not divided by
\* their maxima; they lie in [0, 50].
C8_ValuesAreRawInputs ==
    rendered.ran =>
        /\ rendered.chart.x = <<sliders.screen, sliders.night, 20 - sliders.sleep,
                                2 * sliders.eye, 2 * sliders.switch>>
        /\ rendered.chart.y = factors
        /\ \A i \in 1..5 : rendered.chart.x[i] >= 0 /\ rendered.chart.x[i] <= 100

\* screen time 16 was charted as 16 and sleep 10 as 0
C8_Witness ==
    /\ rendered.ran
    /\ sliders.screen = 32
    /\ sliders.sleep = 20
    /\ rendered.chart.x[1] = 32
    /\ rendered.chart.x[3] = 0

\* C8, as claimed: every value is a relative impact in [0, 1].
C8_RelativeImpactInUnitRange ==
    rendered.ran =>
        \A i \in 1..5 : rendered.chart.x[i] >= 0 /\ rendered.chart.x[i] <= 2

====
